---- MODULE Spec2Model ----
(***************************************************************************)
(* Model of IntroDataScience.py: a linear script that loads a CSV of daily  *)
(* stock prices into a DataFrame, prints sanity checks, drops rows with a   *)
(* missing required value, sorts by Date, adds the Daily Change and MA_5    *)
(* columns, draws two charts and prints three summary metrics.              *)
(*                                                                          *)
(* A cell is a record [t, n, d]: t = "num" is the rational n/d (d > 0, in   *)
(* lowest terms), t = "nan" is the missing value NaN/NaT, t = "str" is a    *)
(* token of letters (such as abc) that read_csv cannot convert: the column  *)
(* then has dtype object and every other token of it stays the text it was  *)
(* in the file, t = "text".  A date is the number of its day; the dates of  *)
(* a file are written in one zero-padded format, so that their texts order  *)
(* as the days do.  A number of d = 1 stands for a                          *)
(* whole-number token of the file.  Arithmetic is on the exact rationals;   *)
(* the binary float64 enters where a value is formatted (Fmt2).             *)
(***************************************************************************)
EXTENDS Integers, Sequences, FiniteSets, TLC

\* ------------------------------------------------------------------ bounds
MaxRows == 2
MaxDate == 2
MaxPrice == 2
LongRows == 6
TieRows == 18

\* ------------------------------------------------------- program constants
Window == 5
MinPeriods == 1
HeadRows == 5

Needed == <<"Date", "Open Price", "Close Price">>
FileColumns == <<"Date", "Open Price", "Close Price", "High Price", "Low Price", "Volume">>

\* ------------------------------------------------------------------- cells
NaN == [t |-> "nan", n |-> 0, d |-> 1]
Str == [t |-> "str", n |-> 0, d |-> 1]
Num(k) == [t |-> "num", n |-> k, d |-> 1]
\* The token of the number or date c, kept as text.
Text(c) == [t |-> "text", n |-> c.n, d |-> c.d]

IsNull(c) == c.t = "nan"
IsNum(c) == c.t = "num"

Abs(k) == IF k < 0 THEN -k ELSE k

RECURSIVE Gcd(_, _)
Gcd(a, b) == IF b = 0 THEN a ELSE Gcd(b, a % b)

\* The rational a/b (b > 0) in lowest terms.
Frac(a, b) ==
    LET g == Gcd(Abs(a), b)
    IN  [t |-> "num", n |-> a \div g, d |-> b \div g]

Leq(x, y) == x.n * y.d <= y.n * x.d
Less(x, y) == x.n * y.d < y.n * x.d

\* x <= y on the values of one column: numbers and dates by value, texts as
\* Python compares str: the texts of numbers or dates among themselves as
\* their values, each of them before the token of letters (a digit sorts
\* before a letter).
KeyLeq(x, y) == IF x.t = "str" THEN y.t = "str" ELSE y.t = "str" \/ Leq(x, y)
KeyLess(x, y) == ~KeyLeq(y, x)

Range(s) == {s[i] : i \in DOMAIN s}

Min(a, b) == IF a <= b THEN a ELSE b
Max(a, b) == IF a >= b THEN a ELSE b

\* ------------------------------------------------------------------ tables
\* A DataFrame: the ordered column names, each column's dtype, and the rows
\* (each a function from column name to cell).
NoTable == [columns |-> <<>>, dtype |-> <<>>, rows |-> <<>>]

Column(rows, c) == [i \in DOMAIN rows |-> rows[i][c]]

HasColumn(t, c) == c \in Range(t.columns)

Indices(n) == [i \in 1..n |-> i]

\* Positional selection, DataFrame.take: row i of the result is row p[i] of s.
Take(s, p) == [i \in DOMAIN p |-> s[p[i]]]

\* Selection by a boolean mask: the positions (ascending) where mask is TRUE,
\* from position i on.
RECURSIVE KeepPositions(_, _)
KeepPositions(mask, i) ==
    IF i > Len(mask) THEN <<>>
    ELSE (IF mask[i] THEN <<i>> ELSE <<>>) \o KeepPositions(mask, i + 1)

\* ------------------------------------------------------- rational arithmetic
AddF(x, y) == Frac(x.n * y.d + y.n * x.d, x.d * y.d)
SubF(x, y) == Frac(x.n * y.d - y.n * x.d, x.d * y.d)
DivInt(x, k) == Frac(x.n, x.d * k)

\* Element-wise Series subtraction; NaN propagates.
SubCell(x, y) == IF IsNum(x) /\ IsNum(y) THEN SubF(x, y) ELSE NaN

\* Series reductions with skipna=True (the default).
NonNull(s) == SelectSeq(s, IsNum)

\* The sum of s[lo..hi], by halves (the arithmetic is exact, so the order of
\* the additions does not show).
RECURSIVE SumRange(_, _, _)
SumRange(s, lo, hi) ==
    IF lo > hi THEN Num(0)
    ELSE IF lo = hi THEN s[lo]
    ELSE LET mid == (lo + hi) \div 2
         IN  AddF(SumRange(s, lo, mid), SumRange(s, mid + 1, hi))

SumF(s) == SumRange(s, 1, Len(s))

\* The greatest and the least value of a non-empty s (cells are in lowest
\* terms, so the value names one cell).
MaxF(s) == CHOOSE m \in Range(s) : \A y \in Range(s) : Leq(y, m)
MinF(s) == CHOOSE m \in Range(s) : \A y \in Range(s) : Leq(m, y)

\* Mutant of SeriesMean: an empty column has mean 0.
SeriesMeanZeroOnEmpty(s) ==
    LET v == NonNull(s) IN IF v = <<>> THEN Num(0) ELSE DivInt(SumF(v), Len(v))

SeriesMean(s) ==
    LET v == NonNull(s) IN IF v = <<>> THEN NaN ELSE DivInt(SumF(v), Len(v))
SeriesMax(s) == LET v == NonNull(s) IN IF v = <<>> THEN NaN ELSE MaxF(v)
SeriesMin(s) == LET v == NonNull(s) IN IF v = <<>> THEN NaN ELSE MinF(v)

\* ---------------------------------------------------------------- float64
\* The values of the program are binary float64.  The model keeps each value
\* as the exact rational and brings in the float64 where the two differ in
\* what is printed: at a decimal tie of the ".2f" format.
MantissaBits == 52

\* 2^k modulo m, by repeated doubling (every intermediate stays below 2m).
RECURSIVE PowTwoMod(_, _)
PowTwoMod(k, m) == IF k = 0 THEN 1 % m ELSE (2 * PowTwoMod(k - 1, m)) % m

\* The binary exponent of the positive rational a/b: the e with
\* 2^e <= a/b < 2^(e+1).
RECURSIVE ExponentUp(_, _, _)
ExponentUp(a, b, e) == IF 2 * b <= a THEN ExponentUp(a, 2 * b, e + 1) ELSE e

RECURSIVE ExponentDown(_, _, _)
ExponentDown(a, b, e) == IF a < b THEN ExponentDown(2 * a, b, e - 1) ELSE e

Exponent(a, b) == IF a >= b THEN ExponentUp(a, b, 0) ELSE ExponentDown(a, b, 0)

\* How the float64 nearest to the positive rational a/b (in lowest terms)
\* compares with a/b: -1 below, 0 equal, 1 above.  With k = 52 - e the float
\* is a/b * 2^k rounded to an integer, ties to the even one; the fraction
\* dropped is ((a * 2^k) mod b) / b.
FloatSide(a, b) ==
    LET k == MantissaBits - Exponent(a, b)
        r2 == ((a % (2 * b)) * PowTwoMod(k, 2 * b)) % (2 * b)
        r == r2 % b
        odd == r2 >= b
    IN  IF k <= 0 \/ r = 0 THEN 0
        ELSE IF 2 * r < b THEN -1
        ELSE IF 2 * r > b THEN 1
        ELSE IF odd THEN 1 ELSE -1

\* Format spec ".2f" of a float64: NaN prints as "nan"; a number prints its
\* sign ("-" for every negative float, "-0.00" included) and its magnitude
\* rounded to a whole number of cents by the float's exact binary value.  A
\* decimal tie of the rational is a tie of the float only when the float is
\* exact, and then goes to the even cent; otherwise it goes to the side of
\* the rational on which the float lies.
Fmt2(x) ==
    IF ~IsNum(x) THEN [t |-> "nan", neg |-> FALSE, cents |-> 0]
    ELSE LET a == Abs(x.n)
             num == 100 * a
             fl == num \div x.d
             rem == num % x.d
             side == IF rem * 2 = x.d THEN FloatSide(a, x.d) ELSE 0
             up == \/ rem * 2 > x.d
                   \/ rem * 2 = x.d /\ side = 1
                   \/ rem * 2 = x.d /\ side = 0 /\ fl % 2 = 1
         IN  [t |-> "num", neg |-> x.n < 0, cents |-> IF up THEN fl + 1 ELSE fl]

\* ------------------------------------------------------------ pandas calls
\* pd.read_csv(path, parse_dates=["Date"], na_values=[...]): the na tokens
\* are NaN already in f.rows.  A file with no data rows gives object columns,
\* Date included (there is nothing for parse_dates to convert).  Otherwise a
\* column holding a token that is not a number (for Date: not a date) is
\* object, its tokens left as text; Date is datetime64; a column of
\* whole-number tokens (d = 1) without NaN is int64; any other numeric column
\* is float64.
ColumnDtype(f, c) ==
    IF f.rows = <<>> THEN "object"
    ELSE IF \E i \in DOMAIN f.rows : f.rows[i][c].t = "str" THEN "object"
    ELSE IF c = "Date" THEN "datetime64"
    ELSE IF \A i \in DOMAIN f.rows : IsNum(f.rows[i][c]) /\ f.rows[i][c].d = 1
         THEN "int64"
    ELSE "float64"

NumericDtypes == {"int64", "float64"}

ReadCsv(f) ==
    LET dt == [c \in Range(f.header) |-> ColumnDtype(f, c)]
    IN  [columns |-> f.header,
         dtype |-> dt,
         rows |-> [i \in DOMAIN f.rows |->
                    [c \in Range(f.header) |->
                       IF dt[c] = "object" /\ IsNum(f.rows[i][c])
                       THEN Text(f.rows[i][c]) ELSE f.rows[i][c]]]]

\* df.head(): the first five rows.
DfHead(t) == SubSeq(t.rows, 1, Min(HeadRows, Len(t.rows)))

\* df.info(): per column, the dtype and the count of non-null values.
Info(t) ==
    [c \in Range(t.columns) |->
       [dtype |-> t.dtype[c],
        nonnull |-> Cardinality({i \in DOMAIN t.rows : ~IsNull(t.rows[i][c])})]]

\* df.describe(numeric_only=True): count, mean, min and max of every numeric
\* column (std and the quartiles are not modelled).
Describe(t) ==
    [c \in {x \in Range(t.columns) : t.dtype[x] \in NumericDtypes} |->
       LET col == Column(t.rows, c)
       IN  [count |-> Len(NonNull(col)), mean |-> SeriesMean(col),
            min |-> SeriesMin(col), max |-> SeriesMax(col)]]

\* Mutant of DropnaKeep: dropna() without subset, a NaN in any column drops
\* the row.
DropnaKeepAnyColumn(t, subset) ==
    LET full(r) == \A c \in Range(t.columns) : ~IsNull(r[c])
    IN  KeepPositions([i \in DOMAIN t.rows |-> full(t.rows[i])], 1)

\* df.dropna(subset=needed): the positions of the rows that have no NaN in
\* any column of subset.
DropnaKeep(t, subset) ==
    LET full(r) == \A k \in DOMAIN subset : ~IsNull(r[subset[k]])
    IN  KeepPositions([i \in DOMAIN t.rows |-> full(t.rows[i])], 1)

\* ------------------------------------------------------------ numpy argsort
\* sort_values(by="Date") sorts with kind="quicksort", numpy's introsort on
\* an array of positions (aquicksort): a range of more than SmallQuicksort + 1
\* positions is partitioned around the median of its first, middle and last
\* key, a shorter one is sorted by insertion.  The operators follow the loop
\* of the generic build (the one of the Pyodide kernel the script is written
\* for).  The fall-back to heapsort after 2 * floor(log2(n)) nested
\* partitions is left out: no array of fewer than 26 positions reaches it.
SmallQuicksort == 16

Swap(a, i, j) == [a EXCEPT ![i] = a[j], ![j] = a[i]]

\* if (less(v[*i], v[*j])) INTP_SWAP(*i, *j)
SwapIfLess(key, a, i, j) ==
    IF KeyLess(key[a[i]], key[a[j]]) THEN Swap(a, i, j) ELSE a

MedianOfThree(key, a, pl, pm, pr) ==
    LET a1 == SwapIfLess(key, a, pm, pl)
        a2 == SwapIfLess(key, a1, pr, pm)
    IN  SwapIfLess(key, a2, pm, pl)

\* do { ++pi; } while (less(v[*pi], vp)), entered at the incremented pi.
RECURSIVE ScanUp(_, _, _, _)
ScanUp(key, a, vp, pi) ==
    IF KeyLess(key[a[pi]], vp) THEN ScanUp(key, a, vp, pi + 1) ELSE pi

\* do { --pj; } while (less(vp, v[*pj])), entered at the decremented pj.
RECURSIVE ScanDown(_, _, _, _)
ScanDown(key, a, vp, pj) ==
    IF KeyLess(vp, key[a[pj]]) THEN ScanDown(key, a, vp, pj - 1) ELSE pj

\* The for (;;) loop of the partition: both scans stop at a key equal to the
\* pivot, and the two positions are exchanged unless the scans have met.
RECURSIVE PartitionLoop(_, _, _, _, _)
PartitionLoop(key, a, vp, pi, pj) ==
    LET i == ScanUp(key, a, vp, pi + 1)
        j == ScanDown(key, a, vp, pj - 1)
    IN  IF i >= j THEN [a |-> a, pi |-> i]
        ELSE PartitionLoop(key, Swap(a, i, j), vp, i, j)

\* One partition of a[pl..pr]: the pivot goes to pr - 1 for the scans and
\* then to its final place pi.
Partition(key, a, pl, pr) ==
    LET pm == pl + ((pr - pl) \div 2)
        m == MedianOfThree(key, a, pl, pm, pr)
        vp == key[m[pm]]
        s == PartitionLoop(key, Swap(m, pm, pr - 1), vp, pl, pr - 1)
    IN  [a |-> Swap(s.a, s.pi, pr - 1), pi |-> s.pi]

\* while (pj > pl && less(vp, v[*pk])) { *pj-- = *pk--; }  *pj = vi;
RECURSIVE Insert(_, _, _, _, _)
Insert(key, a, pl, pj, vi) ==
    IF pj > pl /\ KeyLess(key[vi], key[a[pj - 1]])
    THEN Insert(key, [a EXCEPT ![pj] = a[pj - 1]], pl, pj - 1, vi)
    ELSE [a EXCEPT ![pj] = vi]

\* for (pi = pl + 1; pi <= pr; ++pi): pr is a position of a.
RECURSIVE InsertionSort(_, _, _, _, _)
InsertionSort(key, a, pl, pr, pi) ==
    IF pi > pr \/ pi > Len(a) THEN a
    ELSE InsertionSort(key, Insert(key, a, pl, pi, a[pi]), pl, pr, pi + 1)

RECURSIVE AQuicksort(_, _, _, _)
AQuicksort(key, a, pl, pr) ==
    IF pr - pl > SmallQuicksort
    THEN LET p == Partition(key, a, pl, pr)
         IN  AQuicksort(key, AQuicksort(key, p.a, pl, p.pi - 1), p.pi + 1, pr)
    ELSE InsertionSort(key, a, pl, pr, pl + 1)

\* ndarray.argsort(kind="quicksort"): the positions of key in sorted order.
Argsort(key) == AQuicksort(key, Indices(Len(key)), 1, Len(key))

\* nargsort(items, kind="quicksort", ascending=True, na_position="last"):
\* the non-null values are sorted on their own, and the indexer is their
\* positions in that order, then the null positions in order.
NargsortAscending(key) ==
    LET idx == KeepPositions([i \in DOMAIN key |-> ~IsNull(key[i])], 1)
        nanIdx == KeepPositions([i \in DOMAIN key |-> IsNull(key[i])], 1)
        p == Argsort([i \in DOMAIN idx |-> key[idx[i]]])
    IN  [i \in DOMAIN p |-> idx[p[i]]] \o nanIdx

\* Mutant of Nargsort: ascending=False.
NargsortDescending(key) ==
    LET p == NargsortAscending(key) IN [i \in DOMAIN p |-> p[Len(p) + 1 - i]]

Nargsort(key) == NargsortAscending(key)

\* Series.rolling(window=5, min_periods=1).mean(), as the sliding-window
\* aggregation computes it: the running sum and count of observations after
\* row i, adding row i and removing the row that left the window.
RECURSIVE RollState(_, _)
RollState(x, i) ==
    IF i = 0 THEN [nobs |-> 0, sum |-> Num(0)]
    ELSE LET prev == RollState(x, i - 1)
             added == IsNum(x[i])
             removed == i > Window /\ IsNum(x[i - Window])
         IN  [nobs |-> prev.nobs + (IF added THEN 1 ELSE 0) - (IF removed THEN 1 ELSE 0),
              sum |-> LET a == IF added THEN AddF(prev.sum, x[i]) ELSE prev.sum
                      IN  IF removed THEN SubF(a, x[i - Window]) ELSE a]

\* Mutant of RollingMean: min_periods left at its default, the window size.
RollingMeanDefaultMinPeriods(x) ==
    [i \in DOMAIN x |->
       LET s == RollState(x, i)
       IN  IF s.nobs >= Window THEN DivInt(s.sum, s.nobs) ELSE NaN]

\* Mutant of RollingMean: the window sum is divided by the window size.
RollingMeanFixedDivisor(x) ==
    [i \in DOMAIN x |-> DivInt(RollState(x, i).sum, Window)]

RollingMean(x) ==
    [i \in DOMAIN x |->
       LET s == RollState(x, i)
       IN  IF s.nobs >= MinPeriods THEN DivInt(s.sum, s.nobs) ELSE NaN]

\* df[name] = values: the column is appended (or replaced) in every row.
WithColumn(t, name, values, dt) ==
    [columns |-> IF HasColumn(t, name) THEN t.columns ELSE Append(t.columns, name),
     dtype |-> [c \in Range(t.columns) \cup {name} |->
                  IF c = name THEN dt ELSE t.dtype[c]],
     rows |-> [i \in DOMAIN t.rows |->
                 [c \in Range(t.columns) \cup {name} |->
                    IF c = name THEN values[i] ELSE t.rows[i][c]]]]

\* One pass of the Cleaner (lines 55-61) over table t whose rows came from
\* lines o of the file: the table it returns, with the origins of its rows.
Cleaner(t, o) ==
    LET keep == DropnaKeep(t, Needed)
        rows == Take(t.rows, keep)
        p == Nargsort(Column(rows, "Date"))
    IN  [df |-> [t EXCEPT !.rows = Take(rows, p)], origin |-> Take(Take(o, keep), p)]

\* An output item: what was shown, and the table it was computed from.
Output(kind, t, data) == [kind |-> kind, of |-> t, data |-> data]

VARIABLES
    env,         \* the installed pandas: [describe_numeric_only]
    file,        \* the input: [exists, header, rows]
    pc,          \* position of the script
    df,          \* the module-level DataFrame
    index,       \* df's index labels (0-based row labels)
    origin,      \* history: origin[i] = line of the file that row i of df came from
    cleaned,     \* history: df as the Cleaner left it
    out,         \* console and chart output so far
    err,         \* the exception that ended the run, "" if none
    summary      \* [avg_change, max_close, min_close] once computed

vars == <<env, file, pc, df, index, origin, cleaned, out, err, summary>>

\* ------------------------------------------------------------------ inputs
Dates == {Num(k) : k \in 1..MaxDate}
Prices == {Num(k) : k \in 1..MaxPrice}

FileRow(d, o, c, v) ==
    [col \in Range(FileColumns) |->
       CASE col = "Date" -> d
         [] col = "Open Price" -> o
         [] col = "Close Price" -> c
         [] col = "High Price" -> Num(MaxPrice)
         [] col = "Low Price" -> Num(1)
         [] OTHER -> v]

\* Rows of a short file: a complete row, or a row with a defect: an na token
\* in a required or an optional column, a date that is not a date, or a price
\* that is not a number.
Defects(r) ==
    {[r EXCEPT !["Date"] = NaN],
     [r EXCEPT !["Open Price"] = NaN],
     [r EXCEPT !["Close Price"] = NaN],
     [r EXCEPT !["Date"] = NaN, !["Open Price"] = NaN],
     [r EXCEPT !["Volume"] = NaN],
     [r EXCEPT !["Date"] = Str],
     [r EXCEPT !["Open Price"] = Str],
     [r EXCEPT !["Close Price"] = Str]}

ShortRows ==
    {FileRow(d, Num(MaxPrice), c, Num(1)) : d \in Dates, c \in Prices}
      \cup UNION {Defects(FileRow(d, Num(MaxPrice), Num(1), Num(1))) : d \in Dates}

ShortFiles ==
    {[exists |-> TRUE, header |-> FileColumns, rows |-> r] :
       r \in UNION {[1..n -> ShortRows] : n \in 0..MaxRows}}

\* A month-like file: LongRows complete rows on consecutive days, supplied in
\* ascending or in reverse date order.
LongFiles ==
    {[exists |-> TRUE, header |-> FileColumns,
      rows |-> [i \in 1..LongRows |->
                  FileRow(Num(IF asc THEN i ELSE LongRows + 1 - i),
                          Num(MaxPrice), Num(c[i]), Num(1))]] :
       asc \in BOOLEAN, c \in [1..LongRows -> 1..MaxPrice]}

\* A file long enough for the sort to partition: TieRows complete rows of at
\* most two dates, the first k rows of one date and the rest of another (or
\* the same), closing prices going round 1..MaxPrice.
TiedFiles ==
    {[exists |-> TRUE, header |-> FileColumns,
      rows |-> [i \in 1..TieRows |->
                  FileRow(IF i <= k THEN a ELSE b,
                          Num(MaxPrice), Num(1 + (i % MaxPrice)), Num(1))]] :
       k \in 0..TieRows, a \in Dates, b \in Dates}

\* Files whose header lacks one column.
WithoutColumn(h) == SelectSeq(FileColumns, LAMBDA c : c # h)

PartialFiles ==
    {[exists |-> TRUE, header |-> WithoutColumn(h),
      rows |-> [i \in 1..n |->
                  [c \in Range(WithoutColumn(h)) |->
                     FileRow(Num(i), Num(MaxPrice), Num(1), Num(1))[c]]]] :
       h \in Range(FileColumns), n \in 0..MaxRows}

MissingFile == [exists |-> FALSE, header |-> <<>>, rows |-> <<>>]

Files == ShortFiles \cup LongFiles \cup TiedFiles \cup PartialFiles \cup {MissingFile}

NoSummary == [avg_change |-> NaN, max_close |-> NaN, min_close |-> NaN]

\* DataFrame.describe is declared with the parameters percentiles, include
\* and exclude; whether the call of line 52, which passes numeric_only, is
\* accepted depends on the pandas that runs the script.
Environments == [describe_numeric_only : BOOLEAN]

Init ==
    /\ env \in Environments
    /\ file \in Files
    /\ pc = "load"
    /\ df = NoTable
    /\ index = <<>>
    /\ origin = <<>>
    /\ cleaned = NoTable
    /\ out = <<>>
    /\ err = ""
    /\ summary = NoSummary

Raise(e) ==
    /\ pc' = "error"
    /\ err' = e

RangeIndex(n) == [i \in 1..n |-> i - 1]

\* Mutant of Load: read_csv without parse_dates, a header without Date is not
\* noticed by the Loader.
LoadNoParseDates ==
    /\ pc = "load"
    /\ \/ /\ ~file.exists
          /\ Raise("FileNotFoundError")
          /\ UNCHANGED <<df, index, origin>>
       \/ /\ file.exists
          /\ df' = ReadCsv(file)
          /\ index' = RangeIndex(Len(file.rows))
          /\ origin' = Indices(Len(file.rows))
          /\ pc' = "sanity"
          /\ err' = err
    /\ UNCHANGED <<env, file, cleaned, out, summary>>

\* Lines 36-40: df = pd.read_csv(...).
Load ==
    /\ pc = "load"
    /\ \/ /\ ~file.exists
          /\ Raise("FileNotFoundError")
          /\ UNCHANGED <<df, index, origin>>
       \/ /\ file.exists
          /\ "Date" \notin Range(file.header)
          /\ Raise("ValueError")
          /\ UNCHANGED <<df, index, origin>>
       \/ /\ file.exists
          /\ "Date" \in Range(file.header)
          /\ df' = ReadCsv(file)
          /\ index' = RangeIndex(Len(file.rows))
          /\ origin' = Indices(Len(file.rows))
          /\ pc' = "sanity"
          /\ err' = err
    /\ UNCHANGED <<env, file, cleaned, out, summary>>

\* Lines 45-52: the three sanity-check prints.  A describe that does not take
\* the keyword numeric_only raises TypeError after head and info were printed.
SanityChecks ==
    /\ pc = "sanity"
    /\ \/ /\ env.describe_numeric_only
          /\ out' = out \o << Output("head", df, DfHead(df)),
                               Output("info", df, Info(df)),
                               Output("describe", df, Describe(df)) >>
          /\ pc' = "dropna"
          /\ err' = err
       \/ /\ ~env.describe_numeric_only
          /\ out' = out \o << Output("head", df, DfHead(df)),
                               Output("info", df, Info(df)) >>
          /\ Raise("TypeError: unexpected keyword argument")
    /\ UNCHANGED <<env, file, df, index, origin, cleaned, summary>>

\* Mutant of DropNa: the script goes on to the Feature Engine without sorting.
DropNaSkipSort ==
    /\ pc = "dropna"
    /\ \A k \in DOMAIN Needed : HasColumn(df, Needed[k])
    /\ LET keep == DropnaKeep(df, Needed)
       IN  /\ df' = [df EXCEPT !.rows = Take(df.rows, keep)]
           /\ index' = RangeIndex(Len(keep))
           /\ origin' = Take(origin, keep)
           /\ cleaned' = df'
    /\ pc' = "change"
    /\ UNCHANGED <<env, file, out, err, summary>>

\* Lines 55-56: df = df.dropna(subset=needed).
DropNa ==
    /\ pc = "dropna"
    /\ \/ /\ \E k \in DOMAIN Needed : ~HasColumn(df, Needed[k])
          /\ Raise("KeyError")
          /\ UNCHANGED <<df, index, origin>>
       \/ /\ \A k \in DOMAIN Needed : HasColumn(df, Needed[k])
          /\ LET keep == DropnaKeep(df, Needed)
             IN  /\ df' = [df EXCEPT !.rows = Take(df.rows, keep)]
                 /\ index' = Take(index, keep)
                 /\ origin' = Take(origin, keep)
          /\ pc' = "sort"
          /\ err' = err
    /\ UNCHANGED <<env, file, cleaned, out, summary>>

\* Line 61: df = df.sort_values(by="Date").reset_index(drop=True).
SortValues ==
    /\ pc = "sort"
    /\ LET p == Nargsort(Column(df.rows, "Date"))
       IN  /\ df' = [df EXCEPT !.rows = Take(df.rows, p)]
           /\ origin' = Take(origin, p)
    /\ index' = RangeIndex(Len(df.rows))
    /\ cleaned' = df'
    /\ pc' = "change"
    /\ UNCHANGED <<env, file, out, err, summary>>

\* Line 73: df["Daily Change"] = df["Close Price"] - df["Open Price"].
\* Subtracting text values raises TypeError; two empty columns subtract to an
\* empty column whatever their dtype.
\* Mutant of DailyChangeValues: the operands swapped.
DailyChangeValuesSwapped(t) ==
    [i \in DOMAIN t.rows |-> SubCell(t.rows[i]["Open Price"], t.rows[i]["Close Price"])]

DailyChangeValues(t) ==
    [i \in DOMAIN t.rows |-> SubCell(t.rows[i]["Close Price"], t.rows[i]["Open Price"])]

\* The dtype of the difference: object when an operand is object, int64 for
\* two int64 columns, float64 otherwise.
DailyChangeDtype(t) ==
    IF t.dtype["Close Price"] = "object" \/ t.dtype["Open Price"] = "object"
    THEN "object"
    ELSE IF t.dtype["Close Price"] = "int64" /\ t.dtype["Open Price"] = "int64"
         THEN "int64"
    ELSE "float64"

DailyChange ==
    /\ pc = "change"
    /\ LET isText == df.dtype["Close Price"] = "object" \/ df.dtype["Open Price"] = "object"
       IN  \/ /\ isText /\ df.rows # <<>>
              /\ Raise("TypeError: unsupported operand")
              /\ df' = df
           \/ /\ ~(isText /\ df.rows # <<>>)
              /\ df' = WithColumn(df, "Daily Change", DailyChangeValues(df),
                                   DailyChangeDtype(df))
              /\ pc' = "ma5"
              /\ err' = err
    /\ UNCHANGED <<env, file, index, origin, cleaned, out, summary>>

\* Line 77: df["MA_5"] = df["Close Price"].rolling(window=5, min_periods=1).mean().
MA5 ==
    /\ pc = "ma5"
    /\ df' = WithColumn(df, "MA_5", RollingMean(Column(df.rows, "Close Price")), "float64")
    /\ pc' = "plots"
    /\ UNCHANGED <<env, file, index, origin, cleaned, out, err, summary>>

\* Lines 82-92: the line chart of Close Price and MA_5 against Date, then the
\* bar chart of Daily Change against Date.
Plots ==
    /\ pc = "plots"
    /\ out' = out \o
          << Output("line_chart", df,
                    [x |-> Column(df.rows, "Date"),
                     y |-> Column(df.rows, "Close Price"),
                     y2 |-> Column(df.rows, "MA_5")]),
             Output("bar_chart", df,
                    [x |-> Column(df.rows, "Date"),
                     y |-> Column(df.rows, "Daily Change")]) >>
    /\ pc' = "summary"
    /\ UNCHANGED <<env, file, df, index, origin, cleaned, err, summary>>

\* Lines 97-104: the three summary metrics and their prints.
Summarize(t) ==
    [avg_change |-> SeriesMean(Column(t.rows, "Daily Change")),
     max_close |-> SeriesMax(Column(t.rows, "Close Price")),
     min_close |-> SeriesMin(Column(t.rows, "Close Price"))]

Summary ==
    /\ pc = "summary"
    /\ summary' = Summarize(df)
    /\ out' = out \o
          << Output("avg_change", df, Fmt2(summary'.avg_change)),
             Output("max_close", df, Fmt2(summary'.max_close)),
             Output("min_close", df, Fmt2(summary'.min_close)),
             Output("insight", df, "insight") >>
    /\ pc' = "done"
    /\ UNCHANGED <<env, file, df, index, origin, cleaned, err>>

Next ==
    \/ Load
    \/ SanityChecks
    \/ DropNa
    \/ SortValues
    \/ DailyChange
    \/ MA5
    \/ Plots
    \/ Summary

Spec == Init /\ [][Next]_vars

\* ------------------------------------------------------ vocabulary of claims
\* The raw Observation Table, as the Loader returns it.
Loaded == ReadCsv(file)

\* The lines of the file whose Date, Open Price and Close Price are all present.
Complete(k) ==
    \A c \in Range(Needed) : c \in Range(file.header) /\ ~IsNull(Loaded.rows[k][c])
CompleteLines == {k \in DOMAIN file.rows : Complete(k)}

\* The Cleaner has run (the TypeError of line 73 comes after it).
CleanerDone == pc \in {"change", "ma5", "plots", "summary", "done"} \/ err = "TypeError: unsupported operand"
FeaturesDone == pc \in {"plots", "summary", "done"}

DateOf(i) == df.rows[i]["Date"]
CloseOf(i) == df.rows[i]["Close Price"]

SameCell(x, y) == x.t = y.t /\ x.n * y.d = y.n * x.d

DistinctDates ==
    \A i, j \in DOMAIN df.rows : i # j => ~SameCell(DateOf(i), DateOf(j))

\* ------------------------------------------------------------------ claims

\* C1: the Cleaner's output holds exactly the raw rows whose Date, Open Price
\* and Close Price are all non-null, each once and with its values unchanged:
\* a row with a null required value is removed, a row whose only nulls are in
\* optional columns is retained.
C1_CleanerKeepsExactlyCompleteRows ==
    CleanerDone =>
        /\ Len(origin) = Len(df.rows)
        /\ \A i, j \in DOMAIN origin : i # j => origin[i] # origin[j]
        /\ Range(origin) = CompleteLines
        /\ \A i \in DOMAIN df.rows :
              \A c \in Range(file.header) : df.rows[i][c] = Loaded.rows[origin[i]][c]

\* A finished run over a file with a row missing only its Open Price (removed)
\* and a row missing only its Volume (retained).
C1_Witness ==
    /\ pc = "done"
    /\ \E k \in DOMAIN file.rows :
          /\ IsNull(file.rows[k]["Open Price"])
          /\ ~IsNull(file.rows[k]["Date"]) /\ ~IsNull(file.rows[k]["Close Price"])
          /\ k \notin Range(origin)
    /\ \E k \in DOMAIN file.rows :
          /\ IsNull(file.rows[k]["Volume"])
          /\ k \in Range(origin)

\* C2: after the Cleaner the Date column is non-decreasing, for rows supplied
\* in any order and with duplicate dates, and stays so in the table the
\* Feature Engine and the Reporter see.
C2_DatesNonDecreasing ==
    CleanerDone =>
        \A i \in DOMAIN df.rows :
            i < Len(df.rows) => KeyLeq(DateOf(i), DateOf(i + 1))

\* A finished run whose file had two complete rows out of date order.
C2_Witness ==
    /\ pc = "done"
    /\ \E j, k \in CompleteLines :
          j < k /\ KeyLess(file.rows[k]["Date"], file.rows[j]["Date"])

\* C4: after the Feature Engine, Daily Change of every row is Close Price
\* minus Open Price of that same row, and the rows are those of the cleaned
\* table, all of them and in the same order.
C4_DailyChangeIsCloseMinusOpen ==
    pc \in {"ma5", "plots", "summary", "done"} =>
        /\ Len(df.rows) = Len(cleaned.rows)
        /\ index = RangeIndex(Len(cleaned.rows))
        /\ \A i \in DOMAIN df.rows :
              /\ \A c \in Range(cleaned.columns) : df.rows[i][c] = cleaned.rows[i][c]
              /\ LET dc == df.rows[i]["Daily Change"]
                     cl == cleaned.rows[i]["Close Price"]
                     op == cleaned.rows[i]["Open Price"]
                 IN  /\ IsNum(dc)
                     /\ dc.n * cl.d * op.d = (cl.n * op.d - op.n * cl.d) * dc.d

\* A finished run with at least two rows and a day that closed off its open.
C4_Witness ==
    /\ pc = "done"
    /\ Len(df.rows) >= 2
    /\ \E i \in DOMAIN df.rows : df.rows[i]["Daily Change"].n < 0

\* C5 as the specification states it: the sort is stable, two retained rows
\* with equal Date keep the relative order they had in the file.
C5_SortIsStable ==
    CleanerDone =>
        \A i, j \in DOMAIN df.rows :
            (i < j /\ SameCell(DateOf(i), DateOf(j))) => origin[i] < origin[j]

\* The mean of Close Price over rows max(1, i - 4) .. i of the cleaned table.
WindowLow(i) == Max(1, i - (Window - 1))
WindowSum(i) ==
    SumF(SubSeq(Column(cleaned.rows, "Close Price"), WindowLow(i), i))

MA5IsWindowMean ==
    /\ \A i \in DOMAIN df.rows :
          LET ma == df.rows[i]["MA_5"]
              total == WindowSum(i)
          IN  /\ IsNum(ma)
              /\ ma.n * total.d * (i - WindowLow(i) + 1) = total.n * ma.d
    /\ df.rows # <<>> => SameCell(df.rows[1]["MA_5"], CloseOf(1))

\* The complete rows of the file are in reverse (non-increasing) Date order.
ReverseSupplied ==
    \A j, k \in CompleteLines :
        j < k => KeyLeq(file.rows[k]["Date"], file.rows[j]["Date"])

\* The same file with its rows supplied in the opposite order.
Reversed(t) ==
    [t EXCEPT !.rows = [i \in DOMAIN t.rows |-> t.rows[Len(t.rows) + 1 - i]]]

\* The MA_5 sequence the pipeline gives for the rows supplied in ascending
\* order is the one this run gave.
SameMA5AsAscending ==
    LET r == Cleaner(Reversed(Loaded), Indices(Len(file.rows)))
    IN  RollingMean(Column(r.df.rows, "Close Price")) = Column(df.rows, "MA_5")

\* C3 as the specification states it: MA_5[i] is the mean of Close Price over
\* rows max(0, i-4) .. i of the cleaned table, defined for every row, MA_5[0]
\* is Close Price[0], and rows supplied in reverse date order give the same
\* MA_5 sequence as the same rows supplied in ascending order.
C3_MA5WindowMeanAnyReverse ==
    FeaturesDone =>
        /\ MA5IsWindowMean
        /\ ReverseSupplied => SameMA5AsAscending

\* C3 amended: the same, the reverse-order equality holding when no two
\* retained rows share a Date.
C3_MA5WindowMean ==
    FeaturesDone =>
        /\ MA5IsWindowMean
        /\ (ReverseSupplied /\ DistinctDates) => SameMA5AsAscending

\* More rows than the window, supplied in strictly reverse date order, with
\* closing prices that differ.
C3_Witness ==
    /\ pc = "done"
    /\ Len(df.rows) > Window
    /\ ReverseSupplied /\ DistinctDates
    /\ ~SameCell(CloseOf(1), CloseOf(Len(df.rows)))
    /\ ~SameCell(df.rows[Len(df.rows)]["MA_5"], df.rows[Window]["MA_5"])

\* C6 as the specification states it: the Cleaner applied to an already
\* cleaned table yields the same table, no row removed, order unchanged.
C6_CleanerIdempotent ==
    pc = "change" => Cleaner(df, origin).df = df

OutKinds == [k \in DOMAIN out |-> out[k].kind]
SanityKinds == <<"head", "info", "describe">>
ChartKinds == <<"line_chart", "bar_chart">>
SummaryKinds == <<"avg_change", "max_close", "min_close", "insight">>

\* The input errors of the file of this run.
FileMissing == ~file.exists
HeaderLacks(c) == file.exists /\ c \notin Range(file.header)
BadPrice ==
    /\ file.exists
    /\ \E k \in DOMAIN file.rows : \E c \in {"Open Price", "Close Price"} :
          c \in Range(file.header) /\ file.rows[k][c].t = "str"

BadDate ==
    /\ file.exists /\ "Date" \in Range(file.header)
    /\ \E k \in DOMAIN file.rows : file.rows[k]["Date"].t = "str"

\* The run has ended in one of the input errors: the missing file, the
\* missing header column (Date at read_csv, Open Price or Close Price at
\* dropna), the price that is not a number.
LoaderErrors == {"FileNotFoundError", "ValueError"}
LaterErrors == {"KeyError", "TypeError: unsupported operand"}
InputError == pc = "error" /\ err \in LoaderErrors \cup LaterErrors

\* C7 as the specification states it: a run that ends in an input error has
\* produced no console output and no chart.
C7_InputErrorNoOutput ==
    InputError => out = <<>>

\* C7 amended: a run that ends in an input error has produced no chart and no
\* summary line.  It has produced no output at all when the file or its Date
\* column is missing; when the Open Price or Close Price column is missing or
\* a price is not a number, the three sanity-check prints came first.  A date
\* that cannot be parsed is no error: the Date column is read as text, and
\* when such a run ends in an input error it is the price's.
C7_InputErrorOutput ==
    InputError =>
        /\ err = "FileNotFoundError" <=> FileMissing
        /\ err = "ValueError" <=> HeaderLacks("Date")
        /\ err = "KeyError" => HeaderLacks("Open Price") \/ HeaderLacks("Close Price")
        /\ err = "TypeError: unsupported operand" => BadPrice
        /\ err \in LoaderErrors => out = <<>>
        /\ err \in LaterErrors => OutKinds = SanityKinds
        /\ BadDate => err = "TypeError: unsupported operand" /\ Loaded.dtype["Date"] = "object"

\* A run over a file with a date that cannot be parsed, ended by the price
\* that is not a number, after the sanity prints.
C7_Witness ==
    /\ pc = "error"
    /\ err = "TypeError: unsupported operand"
    /\ BadPrice
    /\ BadDate
    /\ Len(out) = Len(SanityKinds)

\* A run over a file with a date that cannot be parsed has reached its final
\* print, with every output produced.
BadDateRunCompletes ==
    /\ pc = "done"
    /\ BadDate
    /\ OutKinds = SanityKinds \o ChartKinds \o SummaryKinds

\* The table after the Feature Engine, from a cleaned table.
Featured(t) ==
    LET dc == WithColumn(t, "Daily Change", DailyChangeValues(t), DailyChangeDtype(t))
    IN  WithColumn(dc, "MA_5", RollingMean(Column(t.rows, "Close Price")), "float64")

\* C8 as the specification states it: every Reporter output is computed from
\* the feature-engineered table.
C8_AllOutputFromFeatured ==
    pc = "done" => \A k \in DOMAIN out : out[k].of = df

\* C8 amended: the stages run once each in the order Loader, sanity prints,
\* Cleaner, Feature Engine, charts, summary; head rows, type summary and
\* descriptive statistics are computed from the raw table as loaded, the two
\* charts and the three summary scalars from the feature-engineered table.
C8_StageOrder ==
    pc = "done" =>
        /\ OutKinds = SanityKinds \o ChartKinds \o SummaryKinds
        /\ \A k \in DOMAIN out :
              out[k].of = IF out[k].kind \in Range(SanityKinds) THEN Loaded ELSE df
        /\ LET r == Cleaner(Loaded, Indices(Len(file.rows)))
           IN  /\ r.df = cleaned
               /\ df.rows = Featured(r.df).rows
               /\ df.columns = Featured(r.df).columns
        /\ out[4].data.y2 = Column(df.rows, "MA_5")
        /\ out[5].data.y = Column(df.rows, "Daily Change")
        /\ summary = Summarize(df)

\* A finished run over a file with a dropped row and rows out of order: the
\* sanity prints saw a table the charts did not.
C8_Witness ==
    /\ pc = "done"
    /\ Len(out) = Len(SanityKinds) + Len(ChartKinds) + Len(SummaryKinds)
    /\ out[1].of # out[4].of
    /\ Len(Loaded.rows) > Len(df.rows)
    /\ df.rows # <<>>

\* Zero rows remain after cleaning.
EmptyAfterCleaning == cleaned # NoTable /\ cleaned.rows = <<>>

NanText == [t |-> "nan", neg |-> FALSE, cents |-> 0]

\* C9: when zero rows remain after cleaning (no data row in the file, or each
\* row lacks a required value) the Cleaner, Feature Engine and Reporter raise
\* no error, the run goes on to its final print, and avg_change, max_close
\* and min_close are NaN, printed as they are.
C9_EmptyNotFatal ==
    EmptyAfterCleaning =>
        /\ pc # "error"
        /\ pc = "done" \/ ENABLED Next
        /\ pc = "done" =>
              /\ summary = NoSummary
              /\ \A k \in DOMAIN out :
                    out[k].kind \in {"avg_change", "max_close", "min_close"}
                       => out[k].data = NanText
              /\ OutKinds[Len(out)] = "insight"

\* A finished run over a file whose every row lacked a required value.
C9_Witness ==
    /\ pc = "done"
    /\ EmptyAfterCleaning
    /\ file.rows # <<>>

\* C10: for a non-empty cleaned table, MA_5 of every row lies between the
\* reported minimum and maximum of Close Price.
C10_MA5WithinCloseRange ==
    (pc = "done" /\ df.rows # <<>>) =>
        \A i \in DOMAIN df.rows :
            LET ma == df.rows[i]["MA_5"]
            IN  /\ IsNum(ma) /\ IsNum(summary.min_close) /\ IsNum(summary.max_close)
                /\ Leq(summary.min_close, ma)
                /\ Leq(ma, summary.max_close)

\* A finished run with more rows than the window and closing prices that
\* are not all equal.
C10_Witness ==
    /\ pc = "done"
    /\ Len(df.rows) > Window
    /\ Less(summary.min_close, summary.max_close)
====
